---- MODULE Spec2Model ----
(***************************************************************************)
(* The user / content-association storage layer of the SSO server          *)
(* (internal/storage/sqlite/sqlite.go, personalization variant) over the   *)
(* schema of migrations/1_init.up.sql.                                     *)
(*                                                                         *)
(* The database is the record db: the users table, the three junction     *)
(* tables authors, articles, poets and the three catalog tables author,    *)
(* article, poet.  Every Storage method is executed by a process one SQL   *)
(* statement at a time (SQLite runs each statement atomically), so that    *)
(* calls of different processes interleave between statements.  Every      *)
(* statement may fail with a storage error (connection loss, cancelled     *)
(* context, SQLITE_BUSY); a failed statement changes nothing.              *)
(*                                                                         *)
(* Spec     : one process issuing calls one after the other.               *)
(* SpecConc : two processes, one call each, statements interleaved.        *)
(***************************************************************************)
EXTENDS Integers, Sequences, FiniteSets

VARIABLES db, pc, call, loc, ret, pre, faulted, faults, budget, issued, prev

vars == <<db, pc, call, loc, ret, pre, faulted, faults, budget, issued, prev>>

(* ------------------------------ bounds -------------------------------- *)

\* calls the single process of Spec issues
MaxCalls == 3

\* statements that fail with a storage error in one run
MaxFaults == 1

\* rows the three catalog tables hold at most, taken together
MaxCat == 2

Procs == {1, 2}

Emails == {"a@x.com", "b@x.com"}

PassHashes == {"h1"}


JunctionSet == {"authors", "articles", "poets"}

CatalogSet == {"author", "article", "poet"}

(* ------------------------------ helpers ------------------------------- *)

Max(S) == CHOOSE x \in S : \A y \in S : y <= x

\* the elements of a finite set of integers in ascending order (rowid order)
RECURSIVE SortedSeq(_)
SortedSeq(S) ==
    IF S = {} THEN <<>>
    ELSE LET m == Max(S) IN Append(SortedSeq(S \ {m}), m)

Range(s) == {s[i] : i \in 1..Len(s)}

(* --------------------------- values and rows -------------------------- *)

\* error values as seen through errors.Is: nil, storage.ErrUserExists,
\* storage.ErrUserNotFound, and any other (storage) error
Errors == {"nil", "ErrUserExists", "ErrUserNotFound", "ErrStorage"}

\* models.User{}: the zero value returned next to an error
NoUser == [ID |-> 0, Email |-> "", PassHash |-> ""]

CatalogOf(table) ==
    CASE table = "authors" -> "author"
      [] table = "articles" -> "article"
      [] table = "poets" -> "poet"

EmptyDb ==
    [users |-> {}, authors |-> <<>>, articles |-> <<>>, poets |-> <<>>,
     author |-> {}, article |-> {}, poet |-> {}]

(* --------------------------- SQL statements --------------------------- *)

\* faulty variant: rowids counted from 0
NextRowid_FromZero(users) ==
    IF users = {} THEN 0 ELSE Max({u.id : u \in users}) + 1

\* users.id INTEGER PRIMARY KEY (no AUTOINCREMENT): SQLite gives a new row
\* one more than the largest rowid in the table, 1 in an empty table
NextRowid(users) ==
    IF users = {} THEN 1 ELSE Max({u.id : u \in users}) + 1

\* the id a catalog table gives its next row
NextCatalogId(items) ==
    IF items = {} THEN 1 ELSE Max(items) + 1

\* faulty variant: the email column without its UNIQUE constraint
InsertUser_NoUnique(d, email, passHash) ==
    LET id == IF d.users = {} THEN 1 ELSE Max({u.id : u \in d.users}) + 1
        row == [id |-> id, email |-> email, pass_hash |-> passHash]
    IN [db |-> [d EXCEPT !.users = @ \cup {row}], id |-> id, err |-> "nil"]

\* INSERT INTO users(email, pass_hash, name, image) under email UNIQUE.
\* name and image are one of three presets drawn with rand.Intn; no
\* statement of the core selects on them, the columns are left out of the row
InsertUser(d, email, passHash) ==
    IF \E u \in d.users : u.email = email
    THEN [db |-> d, id |-> 0, err |-> "ErrConstraintUnique"]
    ELSE LET id == NextRowid(d.users)
             row == [id |-> id, email |-> email, pass_hash |-> passHash]
         IN [db |-> [d EXCEPT !.users = @ \cup {row}], id |-> id, err |-> "nil"]

\* faulty variant: the unique-constraint error is not recognised
InsertErr_Generic(err) == "ErrStorage"

\* what SaveUser returns for a failed insert: a sqlite3.Error with extended
\* code ErrConstraintUnique becomes storage.ErrUserExists, any other error
\* is returned wrapped
InsertErr(err) ==
    IF err = "ErrConstraintUnique" THEN "ErrUserExists" ELSE "ErrStorage"

\* SELECT id FROM author / article / poet
getAllIDsFromAuthors(d) == SortedSeq(d.author)

getAllIDsFromArticles(d) == SortedSeq(d.article)

getAllIDsFromPoets(d) == SortedSeq(d.poet)

\* faulty variant: the item is associated with every user of the store
InsertAssoc_EveryUser(d, table, id, itemID) ==
    LET ids == SortedSeq({u.id : u \in d.users} \cup {id})
    IN [d EXCEPT ![table] =
           @ \o [i \in 1..Len(ids) |-> [userId |-> ids[i], itemId |-> itemID]]]

\* INSERT INTO <table>(userId, <item>Id) VALUES(?, ?): the junction tables
\* declare no uniqueness, the row is appended
InsertAssoc(d, table, id, itemID) ==
    [d EXCEPT ![table] = Append(@, [userId |-> id, itemId |-> itemID])]

\* DELETE FROM users WHERE id = ?
DeleteFromUsers(d, userID) ==
    [d EXCEPT !.users = {u \in @ : u.id # userID}]

\* faulty variant: the DELETE without its WHERE clause
DeleteFromJunction_All(d, table, userID) ==
    [d EXCEPT ![table] = <<>>]

\* DELETE FROM <table> WHERE userId = ?
DeleteFromJunction(d, table, userID) ==
    LET Keep(r) == r.userId # userID
    IN [d EXCEPT ![table] = SelectSeq(@, Keep)]

\* SELECT id, email, pass_hash, name, image FROM users WHERE email = ?
SelectUserByEmail(d, email) == {u \in d.users : u.email = email}

\* SELECT name, image FROM users WHERE id = ?
SelectUserById(d, userId) == {u \in d.users : u.id = userId}

\* faulty variant: the join without its WHERE clause
ScopedJoin_AllUsers(d, table, userId) ==
    LET Match(r) == r.itemId \in d[CatalogOf(table)]
        rows == SelectSeq(d[table], Match)
    IN [i \in 1..Len(rows) |-> rows[i].itemId]

\* SELECT a.* FROM <catalog> AS a INNER JOIN <table> AS ua
\*   ON a.id = ua.<item>Id WHERE ua.userId = ?
\* one result row per matching junction row, as a sequence of catalog ids
ScopedJoin(d, table, userId) ==
    LET Match(r) == r.userId = userId /\ r.itemId \in d[CatalogOf(table)]
        rows == SelectSeq(d[table], Match)
    IN [i \in 1..Len(rows) |-> rows[i].itemId]

\* the user ids a caller passes: every id some row of the store carries, and
\* the next id, which no row carries
ArgIds(d) ==
    LET used == {u.id : u \in d.users}
                \cup UNION {{r.userId : r \in Range(d[t])} : t \in JunctionSet}
    IN 1..(Max(used \cup {0}) + 1)

(* ----------------------- Storage: the read methods -------------------- *)

\* Storage.User: the row with that email, or ErrUserNotFound on sql.ErrNoRows
User(d, email, fail) ==
    IF fail THEN [user |-> NoUser, err |-> "ErrStorage"]
    ELSE LET rows == SelectUserByEmail(d, email)
         IN IF rows = {} THEN [user |-> NoUser, err |-> "ErrUserNotFound"]
            ELSE LET u == CHOOSE r \in rows : TRUE
                 IN [user |-> [ID |-> u.id, Email |-> u.email,
                               PassHash |-> u.pass_hash],
                     err |-> "nil"]

\* faulty variant: sql.ErrNoRows is not told apart from other errors
GetUser_Generic(d, userId, fail) ==
    IF fail \/ SelectUserById(d, userId) = {}
    THEN [user |-> NoUser, err |-> "ErrStorage"]
    ELSE [user |-> NoUser, err |-> "nil"]

\* Storage.GetUser: name and image of the row with that id (a UserData
\* holding no id, email or hash), or ErrUserNotFound on sql.ErrNoRows
GetUser(d, userId, fail) ==
    IF fail THEN [user |-> NoUser, err |-> "ErrStorage"]
    ELSE IF SelectUserById(d, userId) = {}
    THEN [user |-> NoUser, err |-> "ErrUserNotFound"]
    ELSE [user |-> NoUser, err |-> "nil"]

\* Storage.Authors / Articles / Poets: the catalog rows joined to the
\* user's junction rows
Authors(d, userId, fail) ==
    IF fail THEN [rows |-> <<>>, err |-> "ErrStorage"]
    ELSE [rows |-> ScopedJoin(d, "authors", userId), err |-> "nil"]

Articles(d, userId, fail) ==
    IF fail THEN [rows |-> <<>>, err |-> "ErrStorage"]
    ELSE [rows |-> ScopedJoin(d, "articles", userId), err |-> "nil"]

Poets(d, userId, fail) ==
    IF fail THEN [rows |-> <<>>, err |-> "ErrStorage"]
    ELSE [rows |-> ScopedJoin(d, "poets", userId), err |-> "nil"]

(* --------------------------- process state ---------------------------- *)

\* r.Context().Value("uid"): no value, a value of another type, or an int64
NoCtx == [kind |-> "absent", v |-> 0]

CtxValues(d) ==
    {NoCtx, [kind |-> "other", v |-> 0]}
    \cup {[kind |-> "int64", v |-> n] : n \in ArgIds(d)}

Handlers == {"GetAuthorHandler", "GetArticlesHandler", "GetPoetsHandler",
             "DeleteUserHandler", "GetUserHandler"}

\* the provider call in progress, and the handler and request context it
\* serves when it was made by a handler
NoCall == [op |-> "none", email |-> "", passHash |-> "", uid |-> 0,
           handler |-> "none", ctx |-> NoCtx]

NoLoc == [authorIDs |-> <<>>, articleIDs |-> <<>>, poetIDs |-> <<>>,
          id |-> 0, k |-> 0, err |-> "nil"]

\* the results of a provider call, and the status the handler has written to
\* the response (0: none yet)
NoRet == [id |-> 0, err |-> "nil", user |-> NoUser, rows |-> <<>>, status |-> 0]

NoPrev == [op |-> "none", uid |-> 0, err |-> "nil"]

Ready(p) == pc[p] = "idle" /\ budget[p] > 0

\* the statement p executes now fails (fail) or not; a failure is counted
Fault(p, fail) ==
    /\ fail => faults < MaxFaults
    /\ faults' = IF fail THEN faults + 1 ELSE faults
    /\ faulted' = [faulted EXCEPT ![p] = @ \/ fail]

\* what the caller keeps of a finished call: the last DeleteUser and its error
Remember(p) ==
    IF call[p].op = "DeleteUser"
    THEN [op |-> "DeleteUser", uid |-> call[p].uid, err |-> ret[p].err]
    ELSE NoPrev

\* the association inserts of one SaveUser call in execution order: the
\* authors loop, then the articles loop, then the poets loop
SeedPlan(l) ==
    [i \in 1..Len(l.authorIDs) |-> <<"authors", l.authorIDs[i]>>]
    \o [i \in 1..Len(l.articleIDs) |-> <<"articles", l.articleIDs[i]>>]
    \o [i \in 1..Len(l.poetIDs) |-> <<"poets", l.poetIDs[i]>>]

(* ------------------------- Storage.SaveUser --------------------------- *)

CallSaveUser(p, email, passHash) ==
    /\ Ready(p)
    /\ pc' = [pc EXCEPT ![p] = "prepare"]
    /\ call' = [call EXCEPT ![p] = [NoCall EXCEPT !.op = "SaveUser",
                                    !.email = email, !.passHash = passHash]]
    /\ loc' = [loc EXCEPT ![p] = NoLoc]
    /\ ret' = [ret EXCEPT ![p] = NoRet]
    /\ pre' = [pre EXCEPT ![p] = db]
    /\ faulted' = [faulted EXCEPT ![p] = FALSE]
    /\ budget' = [budget EXCEPT ![p] = @ - 1]
    /\ UNCHANGED <<db, faults, issued, prev>>

\* s.db.Prepare("INSERT INTO users ...")
SavePrepare(p, fail) ==
    /\ pc[p] = "prepare"
    /\ Fault(p, fail)
    /\ IF fail
       THEN /\ pc' = [pc EXCEPT ![p] = "done"]
            /\ ret' = [ret EXCEPT ![p] = [NoRet EXCEPT !.err = "ErrStorage"]]
       ELSE /\ pc' = [pc EXCEPT ![p] = "readAuthors"]
            /\ UNCHANGED ret
    /\ UNCHANGED <<db, call, loc, pre, budget, issued, prev>>

\* authorIDs, err := s.getAllIDsFromAuthors(ctx)
SaveReadAuthors(p, fail) ==
    /\ pc[p] = "readAuthors"
    /\ Fault(p, fail)
    /\ IF fail
       THEN /\ pc' = [pc EXCEPT ![p] = "done"]
            /\ ret' = [ret EXCEPT ![p] = [NoRet EXCEPT !.err = "ErrStorage"]]
            /\ loc' = [loc EXCEPT ![p] = NoLoc]
       ELSE /\ pc' = [pc EXCEPT ![p] = "readArticles"]
            /\ loc' = [loc EXCEPT ![p].authorIDs = getAllIDsFromAuthors(db)]
            /\ UNCHANGED ret
    /\ UNCHANGED <<db, call, pre, budget, issued, prev>>

\* articleIDs, err := s.getAllIDsFromArticles(ctx)
SaveReadArticles(p, fail) ==
    /\ pc[p] = "readArticles"
    /\ Fault(p, fail)
    /\ IF fail
       THEN /\ pc' = [pc EXCEPT ![p] = "done"]
            /\ ret' = [ret EXCEPT ![p] = [NoRet EXCEPT !.err = "ErrStorage"]]
            /\ loc' = [loc EXCEPT ![p] = NoLoc]
       ELSE /\ pc' = [pc EXCEPT ![p] = "readPoets"]
            /\ loc' = [loc EXCEPT ![p].articleIDs = getAllIDsFromArticles(db)]
            /\ UNCHANGED ret
    /\ UNCHANGED <<db, call, pre, budget, issued, prev>>

\* poetIDs, err := s.getAllIDsFromPoets(ctx)
SaveReadPoets(p, fail) ==
    /\ pc[p] = "readPoets"
    /\ Fault(p, fail)
    /\ IF fail
       THEN /\ pc' = [pc EXCEPT ![p] = "done"]
            /\ ret' = [ret EXCEPT ![p] = [NoRet EXCEPT !.err = "ErrStorage"]]
            /\ loc' = [loc EXCEPT ![p] = NoLoc]
       ELSE /\ pc' = [pc EXCEPT ![p] = "insert"]
            /\ loc' = [loc EXCEPT ![p].poetIDs = getAllIDsFromPoets(db)]
            /\ UNCHANGED ret
    /\ UNCHANGED <<db, call, pre, budget, issued, prev>>

\* res, err := stmt.ExecContext(ctx, email, passHash, name, image), the
\* mapping of the unique-constraint error, and id := res.LastInsertId();
\* with empty catalogs the three loops are skipped and (id, nil) returned
SaveInsert(p, fail) ==
    /\ pc[p] = "insert"
    /\ Fault(p, fail)
    /\ LET r == InsertUser(db, call[p].email, call[p].passHash)
           err == IF fail THEN "ErrIO" ELSE r.err
       IN IF err # "nil"
          THEN /\ pc' = [pc EXCEPT ![p] = "done"]
               /\ ret' = [ret EXCEPT ![p] = [NoRet EXCEPT !.err = InsertErr(err)]]
               /\ loc' = [loc EXCEPT ![p] = NoLoc]
               /\ UNCHANGED <<db, issued>>
          ELSE IF SeedPlan(loc[p]) = <<>>
          THEN /\ db' = r.db
               /\ pc' = [pc EXCEPT ![p] = "done"]
               /\ ret' = [ret EXCEPT ![p] = [NoRet EXCEPT !.id = r.id]]
               /\ loc' = [loc EXCEPT ![p] = NoLoc]
               /\ issued' = issued \cup {r.id}
          ELSE /\ db' = r.db
               /\ pc' = [pc EXCEPT ![p] = "seed"]
               /\ loc' = [loc EXCEPT ![p].id = r.id]
               /\ UNCHANGED <<ret, issued>>
    /\ UNCHANGED <<call, pre, budget, prev>>

\* faulty variant: a failed association insert ends the call with (id, nil)
SaveSeed_Swallow(p, fail) ==
    /\ pc[p] = "seed"
    /\ Fault(p, fail)
    /\ LET plan == SeedPlan(loc[p])
           next == plan[loc[p].k + 1]
       IN IF fail \/ loc[p].k + 1 = Len(plan)
          THEN /\ db' = IF fail THEN db
                        ELSE InsertAssoc(db, next[1], loc[p].id, next[2])
               /\ pc' = [pc EXCEPT ![p] = "done"]
               /\ ret' = [ret EXCEPT ![p] = [NoRet EXCEPT !.id = loc[p].id]]
               /\ loc' = [loc EXCEPT ![p] = NoLoc]
               /\ issued' = issued \cup {loc[p].id}
          ELSE /\ db' = InsertAssoc(db, next[1], loc[p].id, next[2])
               /\ loc' = [loc EXCEPT ![p].k = @ + 1]
               /\ UNCHANGED <<pc, ret, issued>>
    /\ UNCHANGED <<call, pre, budget, prev>>

\* faulty variant: a failed association insert is remembered and the loops
\* go on with the next id; the error is returned after the last insert
SaveSeed_Continue(p, fail) ==
    /\ pc[p] = "seed"
    /\ Fault(p, fail)
    /\ LET plan == SeedPlan(loc[p])
           next == plan[loc[p].k + 1]
           err == IF fail THEN "ErrStorage" ELSE loc[p].err
           d == IF fail THEN db
                ELSE InsertAssoc(db, next[1], loc[p].id, next[2])
       IN IF loc[p].k + 1 = Len(plan)
          THEN /\ db' = d
               /\ pc' = [pc EXCEPT ![p] = "done"]
               /\ ret' = [ret EXCEPT ![p] = [NoRet EXCEPT !.id = loc[p].id,
                                                          !.err = err]]
               /\ loc' = [loc EXCEPT ![p] = NoLoc]
               /\ issued' = IF err = "nil" THEN issued \cup {loc[p].id}
                            ELSE issued
          ELSE /\ db' = d
               /\ loc' = [loc EXCEPT ![p].k = @ + 1, ![p].err = err]
               /\ UNCHANGED <<pc, ret, issued>>
    /\ UNCHANGED <<call, pre, budget, prev>>

\* one iteration of the seeding loops: s.db.ExecContext(ctx, "INSERT INTO
\* authors / articles / poets ...", id, itemID); the first failure returns
\* (id, err), the end of the last loop returns (id, nil)
SaveSeed(p, fail) ==
    /\ pc[p] = "seed"
    /\ Fault(p, fail)
    /\ LET plan == SeedPlan(loc[p])
           next == plan[loc[p].k + 1]
       IN IF fail
          THEN /\ pc' = [pc EXCEPT ![p] = "done"]
               /\ ret' = [ret EXCEPT ![p] = [NoRet EXCEPT !.id = loc[p].id,
                                                          !.err = "ErrStorage"]]
               /\ loc' = [loc EXCEPT ![p] = NoLoc]
               /\ UNCHANGED <<db, issued>>
          ELSE IF loc[p].k + 1 = Len(plan)
          THEN /\ db' = InsertAssoc(db, next[1], loc[p].id, next[2])
               /\ pc' = [pc EXCEPT ![p] = "done"]
               /\ ret' = [ret EXCEPT ![p] = [NoRet EXCEPT !.id = loc[p].id]]
               /\ loc' = [loc EXCEPT ![p] = NoLoc]
               /\ issued' = issued \cup {loc[p].id}
          ELSE /\ db' = InsertAssoc(db, next[1], loc[p].id, next[2])
               /\ loc' = [loc EXCEPT ![p].k = @ + 1]
               /\ UNCHANGED <<pc, ret, issued>>
    /\ UNCHANGED <<call, pre, budget, prev>>

(* ------------------------ Storage.DeleteUser -------------------------- *)

CallDeleteUser(p, userID) ==
    /\ Ready(p)
    /\ pc' = [pc EXCEPT ![p] = "delPrepare"]
    /\ call' = [call EXCEPT ![p] = [NoCall EXCEPT !.op = "DeleteUser",
                                    !.uid = userID]]
    /\ loc' = [loc EXCEPT ![p] = NoLoc]
    /\ ret' = [ret EXCEPT ![p] = NoRet]
    /\ pre' = [pre EXCEPT ![p] = db]
    /\ faulted' = [faulted EXCEPT ![p] = FALSE]
    /\ budget' = [budget EXCEPT ![p] = @ - 1]
    /\ UNCHANGED <<db, faults, issued, prev>>

\* the four s.db.Prepare calls: the first that fails returns its error
\* before any statement is executed
DeletePrepare(p, fail) ==
    /\ pc[p] = "delPrepare"
    /\ Fault(p, fail)
    /\ IF fail
       THEN /\ pc' = [pc EXCEPT ![p] = "done"]
            /\ ret' = [ret EXCEPT ![p] = [NoRet EXCEPT !.err = "ErrStorage"]]
       ELSE /\ pc' = [pc EXCEPT ![p] = "delUsers"]
            /\ UNCHANGED ret
    /\ UNCHANGED <<db, call, loc, pre, budget, issued, prev>>

\* _, err = stmt.ExecContext(ctx, userID): err is assigned, not examined
DeleteExecUsers(p, fail) ==
    /\ pc[p] = "delUsers"
    /\ Fault(p, fail)
    /\ pc' = [pc EXCEPT ![p] = "delAuthors"]
    /\ db' = IF fail THEN db ELSE DeleteFromUsers(db, call[p].uid)
    /\ loc' = [loc EXCEPT ![p].err = IF fail THEN "ErrStorage" ELSE "nil"]
    /\ UNCHANGED <<call, ret, pre, budget, issued, prev>>

\* _, err = stmtAuthors.ExecContext(ctx, userID)
DeleteExecAuthors(p, fail) ==
    /\ pc[p] = "delAuthors"
    /\ Fault(p, fail)
    /\ pc' = [pc EXCEPT ![p] = "delArticles"]
    /\ db' = IF fail THEN db ELSE DeleteFromJunction(db, "authors", call[p].uid)
    /\ loc' = [loc EXCEPT ![p].err = IF fail THEN "ErrStorage" ELSE "nil"]
    /\ UNCHANGED <<call, ret, pre, budget, issued, prev>>

\* _, err = stmtArticles.ExecContext(ctx, userID)
DeleteExecArticles(p, fail) ==
    /\ pc[p] = "delArticles"
    /\ Fault(p, fail)
    /\ pc' = [pc EXCEPT ![p] = "delPoets"]
    /\ db' = IF fail THEN db ELSE DeleteFromJunction(db, "articles", call[p].uid)
    /\ loc' = [loc EXCEPT ![p].err = IF fail THEN "ErrStorage" ELSE "nil"]
    /\ UNCHANGED <<call, ret, pre, budget, issued, prev>>

\* faulty variant: the error of the statement before is looked at as well
DeleteExecPoets_EarlierErr(p, fail) ==
    /\ pc[p] = "delPoets"
    /\ Fault(p, fail)
    /\ LET err == IF loc[p].err # "nil" THEN loc[p].err
                  ELSE IF fail THEN "ErrStorage" ELSE "nil"
       IN /\ pc' = [pc EXCEPT ![p] = "done"]
          /\ db' = IF fail THEN db ELSE DeleteFromJunction(db, "poets", call[p].uid)
          /\ loc' = [loc EXCEPT ![p] = NoLoc]
          /\ ret' = [ret EXCEPT ![p] = [NoRet EXCEPT !.err = err]]
    /\ UNCHANGED <<call, pre, budget, issued, prev>>

\* _, err = stmtPoets.ExecContext(ctx, userID); if err != nil return it,
\* else return nil: only the error of this last statement is looked at
DeleteExecPoets(p, fail) ==
    /\ pc[p] = "delPoets"
    /\ Fault(p, fail)
    /\ LET err == IF fail THEN "ErrStorage" ELSE "nil"
       IN /\ pc' = [pc EXCEPT ![p] = "done"]
          /\ db' = IF fail THEN db ELSE DeleteFromJunction(db, "poets", call[p].uid)
          /\ loc' = [loc EXCEPT ![p] = NoLoc]
          /\ ret' = [ret EXCEPT ![p] = [NoRet EXCEPT !.err = err]]
    /\ UNCHANGED <<call, pre, budget, issued, prev>>

(* ------------------------- the read calls ----------------------------- *)

\* a read method is one query: it is called and returns in one step
ReadCall(p, c, r, fail) ==
    /\ Ready(p)
    /\ Fault(p, fail)
    /\ pc' = [pc EXCEPT ![p] = "done"]
    /\ call' = [call EXCEPT ![p] = c]
    /\ ret' = [ret EXCEPT ![p] = r]
    /\ pre' = [pre EXCEPT ![p] = db]
    /\ budget' = [budget EXCEPT ![p] = @ - 1]
    /\ UNCHANGED <<db, loc, issued, prev>>

CallUser(p, email, fail) ==
    LET r == User(db, email, fail)
    IN ReadCall(p, [NoCall EXCEPT !.op = "User", !.email = email],
                [NoRet EXCEPT !.user = r.user, !.err = r.err], fail)

CallGetUser(p, userId, fail) ==
    LET r == GetUser(db, userId, fail)
    IN ReadCall(p, [NoCall EXCEPT !.op = "GetUser", !.uid = userId],
                [NoRet EXCEPT !.user = r.user, !.err = r.err], fail)

CallAuthors(p, userId, fail) ==
    LET r == Authors(db, userId, fail)
    IN ReadCall(p, [NoCall EXCEPT !.op = "Authors", !.uid = userId],
                [NoRet EXCEPT !.rows = r.rows, !.err = r.err], fail)

CallArticles(p, userId, fail) ==
    LET r == Articles(db, userId, fail)
    IN ReadCall(p, [NoCall EXCEPT !.op = "Articles", !.uid = userId],
                [NoRet EXCEPT !.rows = r.rows, !.err = r.err], fail)

CallPoets(p, userId, fail) ==
    LET r == Poets(db, userId, fail)
    IN ReadCall(p, [NoCall EXCEPT !.op = "Poets", !.uid = userId],
                [NoRet EXCEPT !.rows = r.rows, !.err = r.err], fail)

(* ------------------------------ the caller ---------------------------- *)

\* the caller takes the result of the finished call and is free to call again
Return(p) ==
    /\ pc[p] = "done"
    /\ pc' = [pc EXCEPT ![p] = "idle"]
    /\ prev' = [prev EXCEPT ![p] = Remember(p)]
    /\ call' = [call EXCEPT ![p] = NoCall]
    /\ ret' = [ret EXCEPT ![p] = NoRet]
    /\ pre' = [pre EXCEPT ![p] = EmptyDb]
    /\ faulted' = [faulted EXCEPT ![p] = FALSE]
    /\ UNCHANGED <<db, loc, faults, budget, issued>>

(* -------------------------- Core: the handlers ------------------------ *)

\* http.StatusInternalServerError, http.StatusNoContent, and the status a
\* response carries when the handler writes a body or returns without
\* writing a header
StatusInternalServerError == 500

StatusNoContent == 204

StatusOK == 200

\* faulty variant: the ok of the type assertion is dropped, the zero value
\* stands for a missing uid
UidFromContext_Unchecked(ctx) ==
    [uid |-> IF ctx.kind = "int64" THEN ctx.v ELSE 0, ok |-> TRUE]

\* uid, ok := r.Context().Value("uid").(int64)
UidFromContext(ctx) ==
    IF ctx.kind = "int64" THEN [uid |-> ctx.v, ok |-> TRUE]
    ELSE [uid |-> 0, ok |-> FALSE]

\* faulty variant: a missing user is answered with 404
WriteResponse_NotFound404(handler, err) ==
    IF err = "ErrUserNotFound" THEN 404
    ELSE IF err # "nil" THEN StatusInternalServerError
    ELSE IF handler = "DeleteUserHandler" THEN StatusNoContent
    ELSE StatusOK

\* what a handler writes once its provider has returned: http.Error with
\* StatusInternalServerError for any error; else DeleteUserHandler writes
\* StatusNoContent, the read handlers encode the result (a failed Encode comes
\* after the first write, the response carries 200) and GetUserHandler sets
\* the content type only
WriteResponse(handler, err) ==
    IF err # "nil" THEN StatusInternalServerError
    ELSE IF handler = "DeleteUserHandler" THEN StatusNoContent
    ELSE StatusOK

\* a request reaches a handler; its context holds what the middleware left
\* under "uid"
Request(p, handler, ctx) ==
    /\ Ready(p)
    /\ pc' = [pc EXCEPT ![p] = "handler"]
    /\ call' = [call EXCEPT ![p] = [NoCall EXCEPT !.handler = handler,
                                                 !.ctx = ctx]]
    /\ loc' = [loc EXCEPT ![p] = NoLoc]
    /\ ret' = [ret EXCEPT ![p] = NoRet]
    /\ pre' = [pre EXCEPT ![p] = db]
    /\ faulted' = [faulted EXCEPT ![p] = FALSE]
    /\ budget' = [budget EXCEPT ![p] = @ - 1]
    /\ UNCHANGED <<db, faults, issued, prev>>

\* if !ok { http.Error(w, "UID not found in context", 500); return }
UidNotFound(p) ==
    /\ pc' = [pc EXCEPT ![p] = "responded"]
    /\ ret' = [ret EXCEPT ![p] = [NoRet EXCEPT
                                     !.status = StatusInternalServerError]]
    /\ UNCHANGED <<db, call, loc, pre, faulted, faults, budget, issued, prev>>

\* a read handler up to the return of its provider, which is one query with
\* result r
HandlerRead(p, handler, op, r, fail) ==
    /\ pc[p] = "handler"
    /\ call[p].handler = handler
    /\ LET x == UidFromContext(call[p].ctx)
       IN IF ~x.ok
          THEN ~fail /\ UidNotFound(p)
          ELSE /\ Fault(p, fail)
               /\ pc' = [pc EXCEPT ![p] = "done"]
               /\ call' = [call EXCEPT ![p].op = op, ![p].uid = x.uid]
               /\ ret' = [ret EXCEPT ![p] = [NoRet EXCEPT !.err = r.err,
                                                          !.rows = r.rows]]
               /\ pre' = [pre EXCEPT ![p] = db]
               /\ UNCHANGED <<db, loc, budget, issued, prev>>

\* authors, err := c.authorProvider.Authors(r.Context(), uid)
GetAuthorHandler(p, fail) ==
    HandlerRead(p, "GetAuthorHandler", "Authors",
                Authors(db, UidFromContext(call[p].ctx).uid, fail), fail)

\* articles, err := c.articleProvider.Articles(r.Context(), uid)
GetArticlesHandler(p, fail) ==
    HandlerRead(p, "GetArticlesHandler", "Articles",
                Articles(db, UidFromContext(call[p].ctx).uid, fail), fail)

\* poets, err := c.poetProvider.Poets(r.Context(), uid)
GetPoetsHandler(p, fail) ==
    HandlerRead(p, "GetPoetsHandler", "Poets",
                Poets(db, UidFromContext(call[p].ctx).uid, fail), fail)

\* _, err := c.userProvider.GetUser(r.Context(), uid): the record is dropped
GetUserHandler(p, fail) ==
    LET r == GetUser(db, UidFromContext(call[p].ctx).uid, fail)
    IN HandlerRead(p, "GetUserHandler", "GetUser",
                   [rows |-> <<>>, err |-> r.err], fail)

\* err := c.userProvider.DeleteUser(r.Context(), uid): the call runs
\* statement by statement
DeleteUserHandler(p) ==
    /\ pc[p] = "handler"
    /\ call[p].handler = "DeleteUserHandler"
    /\ LET x == UidFromContext(call[p].ctx)
       IN IF ~x.ok
          THEN UidNotFound(p)
          ELSE /\ pc' = [pc EXCEPT ![p] = "delPrepare"]
               /\ call' = [call EXCEPT ![p].op = "DeleteUser", ![p].uid = x.uid]
               /\ pre' = [pre EXCEPT ![p] = db]
               /\ UNCHANGED <<db, loc, ret, faulted, faults, budget, issued, prev>>

\* the provider has returned: the handler writes its response
HandlerRespond(p) ==
    /\ pc[p] = "done"
    /\ call[p].handler # "none"
    /\ pc' = [pc EXCEPT ![p] = "responded"]
    /\ ret' = [ret EXCEPT ![p].status = WriteResponse(call[p].handler, ret[p].err)]
    /\ UNCHANGED <<db, call, loc, pre, faulted, faults, budget, issued, prev>>

\* the handler returns and the goroutine serves the next request
HandlerReturn(p) ==
    /\ pc[p] = "responded"
    /\ pc' = [pc EXCEPT ![p] = "idle"]
    /\ prev' = [prev EXCEPT ![p] = Remember(p)]
    /\ call' = [call EXCEPT ![p] = NoCall]
    /\ ret' = [ret EXCEPT ![p] = NoRet]
    /\ pre' = [pre EXCEPT ![p] = EmptyDb]
    /\ faulted' = [faulted EXCEPT ![p] = FALSE]
    /\ UNCHANGED <<db, loc, faults, budget, issued>>

(* ----------------------- the catalog, out of band --------------------- *)

\* the catalogs are curated by an admin outside the core: between two calls
\* of the core a row is added to a catalog, with the next id of that table
AdminAdd(catalog) ==
    /\ \A p \in Procs : pc[p] = "idle"
    /\ Cardinality(db.author) + Cardinality(db.article) + Cardinality(db.poet) < MaxCat
    /\ db' = [db EXCEPT ![catalog] = @ \cup {NextCatalogId(@)}]
    /\ UNCHANGED <<pc, call, loc, ret, pre, faulted, faults, budget, issued, prev>>

(* --------------------------- specifications --------------------------- *)

InitProcs ==
    /\ pc = [p \in Procs |-> "idle"]
    /\ call = [p \in Procs |-> NoCall]
    /\ loc = [p \in Procs |-> NoLoc]
    /\ ret = [p \in Procs |-> NoRet]
    /\ pre = [p \in Procs |-> EmptyDb]
    /\ faulted = [p \in Procs |-> FALSE]
    /\ prev = [p \in Procs |-> NoPrev]
    /\ faults = 0
    /\ issued = {}

\* a fresh database; process 1 issues MaxCalls calls, one after the other
Init ==
    /\ InitProcs
    /\ db = EmptyDb
    /\ budget = [p \in Procs |-> IF p = 1 THEN MaxCalls ELSE 0]

\* the store one complete SaveUser leaves behind in a fresh database
OneUserDb(d, email) ==
    LET id == NextRowid(d.users)
        d0 == InsertUser(d, email, "h1").db
        Rows(S) == [i \in 1..Cardinality(S) |->
                       [userId |-> id, itemId |-> SortedSeq(S)[i]]]
    IN [d0 EXCEPT !.authors = Rows(d.author), !.articles = Rows(d.article),
                  !.poets = Rows(d.poet)]

\* two processes with one call each, over a database that holds no user or
\* one seeded user
InitConc ==
    /\ InitProcs
    /\ \E a \in 0..MaxCat, b \in 0..MaxCat, c \in 0..MaxCat, seeded \in BOOLEAN :
          /\ a + b + c <= MaxCat
          /\ LET d == [EmptyDb EXCEPT !.author = 1..a, !.article = 1..b,
                                      !.poet = 1..c]
             IN db = IF seeded THEN OneUserDb(d, "a@x.com") ELSE d
    /\ budget = [p \in Procs |-> 1]

Next ==
    \/ \E p \in Procs, email \in Emails, passHash \in PassHashes :
          CallSaveUser(p, email, passHash)
    \/ \E p \in Procs, fail \in BOOLEAN : SavePrepare(p, fail)
    \/ \E p \in Procs, fail \in BOOLEAN : SaveReadAuthors(p, fail)
    \/ \E p \in Procs, fail \in BOOLEAN : SaveReadArticles(p, fail)
    \/ \E p \in Procs, fail \in BOOLEAN : SaveReadPoets(p, fail)
    \/ \E p \in Procs, fail \in BOOLEAN : SaveInsert(p, fail)
    \/ \E p \in Procs, fail \in BOOLEAN : SaveSeed(p, fail)
    \/ \E p \in Procs, userID \in ArgIds(db) : CallDeleteUser(p, userID)
    \/ \E p \in Procs, fail \in BOOLEAN : DeletePrepare(p, fail)
    \/ \E p \in Procs, fail \in BOOLEAN : DeleteExecUsers(p, fail)
    \/ \E p \in Procs, fail \in BOOLEAN : DeleteExecAuthors(p, fail)
    \/ \E p \in Procs, fail \in BOOLEAN : DeleteExecArticles(p, fail)
    \/ \E p \in Procs, fail \in BOOLEAN : DeleteExecPoets(p, fail)
    \/ \E p \in Procs, email \in Emails, fail \in BOOLEAN : CallUser(p, email, fail)
    \/ \E p \in Procs, userId \in ArgIds(db), fail \in BOOLEAN :
          \/ CallGetUser(p, userId, fail)
          \/ CallAuthors(p, userId, fail)
          \/ CallArticles(p, userId, fail)
          \/ CallPoets(p, userId, fail)
    \/ \E p \in Procs : Return(p)
    \/ \E catalog \in CatalogSet : AdminAdd(catalog)

Spec == Init /\ [][Next]_vars

SpecConc == InitConc /\ [][Next]_vars

\* the HTTP layer: two goroutines serve one request each through the handlers
\* of Core, over a database that holds no user or one seeded user
NextCore ==
    \/ \E p \in Procs, handler \in Handlers, ctx \in CtxValues(db) :
          Request(p, handler, ctx)
    \/ \E p \in Procs, fail \in BOOLEAN : GetAuthorHandler(p, fail)
    \/ \E p \in Procs, fail \in BOOLEAN : GetArticlesHandler(p, fail)
    \/ \E p \in Procs, fail \in BOOLEAN : GetPoetsHandler(p, fail)
    \/ \E p \in Procs, fail \in BOOLEAN : GetUserHandler(p, fail)
    \/ \E p \in Procs : DeleteUserHandler(p)
    \/ \E p \in Procs, fail \in BOOLEAN : DeletePrepare(p, fail)
    \/ \E p \in Procs, fail \in BOOLEAN : DeleteExecUsers(p, fail)
    \/ \E p \in Procs, fail \in BOOLEAN : DeleteExecAuthors(p, fail)
    \/ \E p \in Procs, fail \in BOOLEAN : DeleteExecArticles(p, fail)
    \/ \E p \in Procs, fail \in BOOLEAN : DeleteExecPoets(p, fail)
    \/ \E p \in Procs : HandlerRespond(p)
    \/ \E p \in Procs : HandlerReturn(p)

SpecCore == InitConc /\ [][NextCore]_vars

(* ------------------------------ properties ---------------------------- *)

Done(p, op) == pc[p] = "done" /\ call[p].op = op

EmailsOf(d) == {u.email : u \in d.users}

\* the rows of table that carry user id u
RowsOf(d, table, u) ==
    LET Mine(r) == r.userId = u
    IN SelectSeq(d[table], Mine)

\* everything the store holds for user id u
Footprint(d, u) ==
    [users |-> SelectUserById(d, u), authors |-> RowsOf(d, "authors", u),
     articles |-> RowsOf(d, "articles", u), poets |-> RowsOf(d, "poets", u)]

NoFootprint ==
    [users |-> {}, authors |-> <<>>, articles |-> <<>>, poets |-> <<>>]

\* the read method that joins over a junction table
ReaderOf(table) ==
    CASE table = "authors" -> "Authors"
      [] table = "articles" -> "Articles"
      [] table = "poets" -> "Poets"

\* every user id a row of the store carries
IdsOf(d) ==
    {u.id : u \in d.users}
    \cup UNION {{r.userId : r \in Range(d[t])} : t \in JunctionSet}

\* C1: a SaveUser call for an email that already has a user row returns an
\* error with id 0 - ErrUserExists whenever none of its statements hit a
\* storage fault - and leaves the whole store as it was before the call.
C1_ExistingEmailRejected ==
    \A p \in Procs :
        (Done(p, "SaveUser") /\ call[p].email \in EmailsOf(pre[p]))
        => /\ ret[p].id = 0
           /\ ret[p].err # "nil"
           /\ (~faulted[p] => ret[p].err = "ErrUserExists")
           /\ db = pre[p]

C1_Witness ==
    \E p \in Procs :
        /\ Done(p, "SaveUser")
        /\ call[p].email \in EmailsOf(pre[p])
        /\ ~faulted[p]
        /\ ret[p].err = "ErrUserExists"
        /\ pre[p].author # {}

\* C2: two SaveUser calls for the same fresh email whose statements
\* interleave in any order and hit no storage fault: one returns success, the
\* other ErrUserExists, and one user row with that email exists afterwards.
C2_ConcurrentSameEmail ==
    ( /\ Done(1, "SaveUser") /\ Done(2, "SaveUser")
      /\ call[1].email = call[2].email
      /\ ~faulted[1] /\ ~faulted[2]
      /\ \E p \in Procs : call[p].email \notin EmailsOf(pre[p]) )
    => /\ {ret[1].err, ret[2].err} = {"nil", "ErrUserExists"}
       /\ Cardinality(SelectUserByEmail(db, call[1].email)) = 1

\* both calls began before either inserted, so both found the email fresh
C2_Witness ==
    /\ Done(1, "SaveUser") /\ Done(2, "SaveUser")
    /\ call[1].email = call[2].email
    /\ ~faulted[1] /\ ~faulted[2]
    /\ \A p \in Procs : call[p].email \notin EmailsOf(pre[p])
    /\ ret[2].err = "nil" /\ ret[1].err = "ErrUserExists"
    /\ Cardinality(SelectUserByEmail(db, call[1].email)) = 1

\* C3: once SaveUser returned success with id i, User(email) returns a
\* record with that email and ID i, and i is positive.
C3_SavedUserIsFetched ==
    \A p \in Procs :
        (Done(p, "SaveUser") /\ ret[p].err = "nil")
        => LET r == User(db, call[p].email, FALSE)
           IN /\ r.err = "nil"
              /\ r.user.Email = call[p].email
              /\ r.user.ID = ret[p].id
              /\ ret[p].id > 0

C3_Witness ==
    \E p \in Procs :
        /\ Done(p, "SaveUser") /\ ret[p].err = "nil"
        /\ ret[p].id = 2
        /\ User(db, call[p].email, FALSE).user.ID = 2
        /\ Cardinality(db.users) = 2

\* C4: no SaveUser call returns with success an id that an earlier
\* successful SaveUser call returned.
C4_IdsNeverReused ==
    [][\A p \in Procs :
          (pc[p] # "done" /\ pc'[p] = "done" /\ call[p].op = "SaveUser"
           /\ ret'[p].err = "nil")
          => ret'[p].id \notin issued]_vars

\* C5: once SaveUser returned success with id i, each junction table holds
\* for i one row per id the catalog held when the user was created, and no
\* other row.
C5_SeededOncePerCatalogRow ==
    \A p \in Procs :
        (Done(p, "SaveUser") /\ ret[p].err = "nil")
        => \A t \in JunctionSet :
              LET mine == RowsOf(db, t, ret[p].id)
                  catalog == pre[p][CatalogOf(t)]
              IN /\ Len(mine) = Cardinality(catalog)
                 /\ {r.itemId : r \in Range(mine)} = catalog

\* C6: once DeleteUser(u) returned success, no user row has id u, no junction
\* row has userId u, and the scoped reads of u are empty.
C6_DeletedUserIsGone ==
    \A p \in Procs :
        (Done(p, "DeleteUser") /\ ret[p].err = "nil")
        => /\ Footprint(db, call[p].uid) = NoFootprint
           /\ Authors(db, call[p].uid, FALSE).rows = <<>>
           /\ Articles(db, call[p].uid, FALSE).rows = <<>>
           /\ Poets(db, call[p].uid, FALSE).rows = <<>>

\* C7: when DeleteUser(u) has returned, either all rows of u are removed or
\* all rows of u are as they were before the call.
C7_DeleteAllOrNothing ==
    \A p \in Procs :
        Done(p, "DeleteUser")
        => \/ Footprint(db, call[p].uid) = NoFootprint
           \/ Footprint(db, call[p].uid) = Footprint(pre[p], call[p].uid)

\* C8: during and after DeleteUser(u) the rows of every other user id, in
\* users and in each junction table, and the catalog tables are as they were
\* before the call.
C8_DeleteLeavesOthers ==
    \A p \in Procs :
        (call[p].op = "DeleteUser" /\ pc[p] # "idle")
        => /\ \A v \in (IdsOf(pre[p]) \cup IdsOf(db)) \ {call[p].uid} :
                 Footprint(db, v) = Footprint(pre[p], v)
           /\ \A c \in CatalogSet : db[c] = pre[p][c]

C8_Witness ==
    \E p \in Procs, v \in IdsOf(db) :
        /\ Done(p, "DeleteUser") /\ ret[p].err = "nil"
        /\ v # call[p].uid
        /\ Footprint(pre[p], call[p].uid).users # {}
        /\ Footprint(pre[p], call[p].uid).authors # <<>>
        /\ Footprint(db, call[p].uid) = NoFootprint
        /\ Footprint(db, v).users # {}
        /\ Footprint(db, v).authors # <<>>

\* C9: a DeleteUser(u) that hits no storage fault and is issued for an id
\* without a user row, or right after a DeleteUser(u) that returned success,
\* returns success and leaves the whole store unchanged.
C9_DeleteIdempotent ==
    \A p \in Procs :
        ( /\ Done(p, "DeleteUser") /\ ~faulted[p]
          /\ \/ SelectUserById(pre[p], call[p].uid) = {}
             \/ prev[p] = [op |-> "DeleteUser", uid |-> call[p].uid,
                           err |-> "nil"] )
        => (ret[p].err = "nil" /\ db = pre[p])

\* C10: Authors(a), Articles(a) and Poets(a) return only catalog items for
\* which the junction table holds a row with userId a, in every state and in
\* every result a read call returned.
C10_ScopedReadsIsolated ==
    /\ \A a \in ArgIds(db) :
          /\ \A x \in Range(Authors(db, a, FALSE).rows) :
                \E r \in Range(db.authors) : r.userId = a /\ r.itemId = x
          /\ \A x \in Range(Articles(db, a, FALSE).rows) :
                \E r \in Range(db.articles) : r.userId = a /\ r.itemId = x
          /\ \A x \in Range(Poets(db, a, FALSE).rows) :
                \E r \in Range(db.poets) : r.userId = a /\ r.itemId = x
    /\ \A p \in Procs, t \in JunctionSet :
          Done(p, ReaderOf(t))
          => \A x \in Range(ret[p].rows) :
                \E r \in Range(db[t]) : r.userId = call[p].uid /\ r.itemId = x

\* user b is associated with an author that user a is not, and a read call
\* for a has returned without it
C10_Witness ==
    \E p \in Procs, b \in IdsOf(db), x \in db.author :
        /\ Done(p, "Authors") /\ ret[p].err = "nil"
        /\ b # call[p].uid
        /\ SelectUserById(db, call[p].uid) # {}
        /\ SelectUserById(db, b) # {}
        /\ x \in Range(Authors(db, b, FALSE).rows)
        /\ x \notin Range(ret[p].rows)
        /\ ret[p].rows # <<>>

\* the junction rows of table added since the call of p began (no statement
\* of a sequential run removes a row while SaveUser runs)
NewRows(p, table) == SubSeq(db[table], Len(pre[p][table]) + 1, Len(db[table]))

\* the rows seeding adds to a junction table for user id and catalog ids S
Seeded(id, S) ==
    [i \in 1..Cardinality(S) |-> [userId |-> id, itemId |-> SortedSeq(S)[i]]]

\* the user rows the store holds now and did not hold when the call of p began
InsertedBy(p) == db.users \ pre[p].users

\* C11: User(email) for an email without a user row and GetUser(id) for an id
\* without a user row return no record, and ErrUserNotFound whenever the query
\* hit no storage fault; the same holds right after DeleteUser removed the
\* user.
C11_MissingUserNotFound ==
    /\ \A email \in Emails \ EmailsOf(db) :
          User(db, email, FALSE) = [user |-> NoUser, err |-> "ErrUserNotFound"]
    /\ \A p \in Procs :
          /\ (Done(p, "User") /\ call[p].email \notin EmailsOf(pre[p]))
             => /\ ret[p].user = NoUser
                /\ ret[p].err # "nil"
                /\ (~faulted[p] => ret[p].err = "ErrUserNotFound")
          /\ (Done(p, "GetUser") /\ SelectUserById(pre[p], call[p].uid) = {})
             => /\ ret[p].user = NoUser
                /\ ret[p].err # "nil"
                /\ (~faulted[p] => ret[p].err = "ErrUserNotFound")

\* GetUser(u) right after a DeleteUser(u) that removed the user SaveUser had
\* created with id u
C11_Witness ==
    \E p \in Procs :
        /\ Done(p, "GetUser") /\ ~faulted[p]
        /\ call[p].uid \in issued
        /\ prev[p] = [op |-> "DeleteUser", uid |-> call[p].uid, err |-> "nil"]
        /\ SelectUserById(pre[p], call[p].uid) = {}
        /\ ret[p].err = "ErrUserNotFound"

\* C12: SaveUser returns nil only if it inserted the user row and one
\* association row for every catalog id it read; it returns an error with id 0
\* when it inserted no user row, and an error with the new non-zero id when it
\* inserted the user row and seeding did not complete.
C12_SeedingFailureSurfaced ==
    \A p \in Procs :
        Done(p, "SaveUser")
        => LET row == [id |-> ret[p].id, email |-> call[p].email,
                       pass_hash |-> call[p].passHash]
               Complete == \A t \in JunctionSet :
                              NewRows(p, t) = Seeded(ret[p].id, pre[p][CatalogOf(t)])
           IN /\ ret[p].err = "nil"
                 => (ret[p].id # 0 /\ InsertedBy(p) = {row} /\ Complete)
              /\ InsertedBy(p) = {}
                 => (ret[p].err # "nil" /\ ret[p].id = 0)
              /\ (InsertedBy(p) # {} /\ ~Complete)
                 => (ret[p].err # "nil" /\ ret[p].id # 0 /\ InsertedBy(p) = {row})

\* seeding failed after its first insert: the call returned the new id with
\* an error
C12_Witness ==
    \E p \in Procs :
        /\ Done(p, "SaveUser")
        /\ ret[p].err # "nil" /\ ret[p].id # 0
        /\ InsertedBy(p) # {}
        /\ \E t \in JunctionSet : NewRows(p, t) # <<>>
        /\ \E t \in JunctionSet :
              Len(NewRows(p, t)) < Cardinality(pre[p][CatalogOf(t)])

\* C13: whenever no SaveUser or DeleteUser call is in progress, every row of
\* authors, articles and poets carries the id of an existing user row.
C13_ReferentialIntegrity ==
    (\A p \in Procs :
        call[p].op \in {"SaveUser", "DeleteUser"} => pc[p] \in {"idle", "done"})
    => \A t \in JunctionSet : \A r \in Range(db[t]) :
          SelectUserById(db, r.userId) # {}

\* C14: when an association insert of SaveUser fails, the call returns the
\* error with the new id, the user row and the association rows inserted
\* before stay, and no later insert took place: the rows the call added are
\* those of the inserts before the failing one, in the order authors,
\* articles, poets.
C14_SeedingStopsAtFirstFailure ==
    \A p \in Procs :
        (Done(p, "SaveUser") /\ InsertedBy(p) # {} /\ ret[p].err # "nil")
        => LET Full(t) == Seeded(ret[p].id, pre[p][CatalogOf(t)])
               Prefix(t) == /\ Len(NewRows(p, t)) <= Len(Full(t))
                            /\ NewRows(p, t) = SubSeq(Full(t), 1, Len(NewRows(p, t)))
           IN /\ faulted[p]
              /\ InsertedBy(p) = {[id |-> ret[p].id, email |-> call[p].email,
                                   pass_hash |-> call[p].passHash]}
              /\ \A t \in JunctionSet : Prefix(t)
              /\ \E t \in JunctionSet : NewRows(p, t) # Full(t)
              /\ NewRows(p, "authors") # Full("authors")
                 => (NewRows(p, "articles") = <<>> /\ NewRows(p, "poets") = <<>>)
              /\ NewRows(p, "articles") # Full("articles")
                 => NewRows(p, "poets") = <<>>

\* the second of two association inserts failed, in a following catalog
C14_Witness ==
    \E p \in Procs :
        /\ Done(p, "SaveUser") /\ ret[p].err # "nil" /\ InsertedBy(p) # {}
        /\ Len(NewRows(p, "authors")) = 1
        /\ pre[p].author # {} /\ pre[p].poet # {}
        /\ NewRows(p, "poets") = <<>>

\* C15: DeleteUser goes from each of its delete statements to the next, in the
\* order users, authors, articles, poets, whether the statement failed or not;
\* a statement that did not fail removed the rows of the id from its table;
\* the call returns an error exactly when the delete on poets failed.
C15_DeleteReportsLastOnly ==
    [][\A p \in Procs :
          LET failed == faults' # faults
              u == call[p].uid
          IN /\ (pc[p] = "delUsers" /\ pc'[p] # pc[p])
                => /\ pc'[p] = "delAuthors"
                   /\ failed \/ SelectUserById(db', u) = {}
             /\ (pc[p] = "delAuthors" /\ pc'[p] # pc[p])
                => /\ pc'[p] = "delArticles"
                   /\ failed \/ RowsOf(db', "authors", u) = <<>>
             /\ (pc[p] = "delArticles" /\ pc'[p] # pc[p])
                => /\ pc'[p] = "delPoets"
                   /\ failed \/ RowsOf(db', "articles", u) = <<>>
             /\ (pc[p] = "delPoets" /\ pc'[p] # pc[p])
                => /\ pc'[p] = "done"
                   /\ failed \/ RowsOf(db', "poets", u) = <<>>
                   /\ (ret'[p].err # "nil") <=> failed]_vars

\* the delete on users failed, the delete on poets did not: success returned
\* with the user row still in the store
C15_Witness ==
    \E p \in Procs :
        /\ Done(p, "DeleteUser") /\ faulted[p]
        /\ ret[p].err = "nil"
        /\ SelectUserById(db, call[p].uid) # {}
        /\ RowsOf(pre[p], "poets", call[p].uid) # <<>>
        /\ RowsOf(db, "poets", call[p].uid) = <<>>

\* C16: each junction table holds at most one row per (userId, catalog id)
\* pair, and no scoped read returns a catalog item twice.
C16_NoDuplicateAssociations ==
    /\ \A t \in JunctionSet : \A i, j \in 1..Len(db[t]) :
          i # j => db[t][i] # db[t][j]
    /\ \A u \in ArgIds(db), t \in JunctionSet :
          LET rows == ScopedJoin(db, t, u)
          IN \A i, j \in 1..Len(rows) : i # j => rows[i] # rows[j]

\* C17: a step of the core associates items with user id u only while a
\* SaveUser call is seeding u, and then only catalog ids that call read before
\* it inserted the user row; in every other step, the addition of a catalog
\* row included, the scoped reads of u return no item they did not return
\* before.
C17_SeedingNotRetroactive ==
    [][\A u \in ArgIds(db), t \in JunctionSet :
          LET new == Range(ScopedJoin(db', t, u)) \ Range(ScopedJoin(db, t, u))
              Seeding(p) == pc[p] = "seed" /\ loc[p].id = u
              Read(p) == CASE t = "authors" -> Range(loc[p].authorIDs)
                           [] t = "articles" -> Range(loc[p].articleIDs)
                           [] t = "poets" -> Range(loc[p].poetIDs)
          IN new # {} => \E p \in Procs : Seeding(p) /\ new \subseteq Read(p)]_vars

\* a user created when the author catalog held one row, and an author added
\* afterwards that the user's read does not return
C17_Witness ==
    \E u \in IdsOf(db), x \in db.author :
        /\ faults = 0
        /\ \A p \in Procs : pc[p] = "idle"
        /\ SelectUserById(db, u) # {}
        /\ Authors(db, u, FALSE).rows # <<>>
        /\ x \notin Range(Authors(db, u, FALSE).rows)
        /\ \E v \in IdsOf(db) : x \in Range(Authors(db, v, FALSE).rows)

\* C18: a handler whose request context holds no int64 under "uid" calls no
\* provider, answers 500 and ends; a provider call made by a handler carries
\* the int64 of the context, and nothing is written before the handler has
\* looked at the context.
C18_NoIdentityNoProviderCall ==
    \A p \in Procs :
        call[p].handler # "none"
        => /\ call[p].ctx.kind # "int64"
              => /\ call[p].op = "none"
                 /\ pc[p] \in {"handler", "responded"}
                 /\ pc[p] = "responded"
                    => ret[p].status = StatusInternalServerError
           /\ call[p].op # "none"
              => (call[p].ctx.kind = "int64" /\ call[p].uid = call[p].ctx.v)
           /\ pc[p] = "handler" => ret[p].status = 0

\* DeleteUserHandler answered 500 for a request without identity while the
\* store holds a user, and the user is still there
C18_Witness ==
    \E p \in Procs :
        /\ pc[p] = "responded"
        /\ call[p].handler = "DeleteUserHandler"
        /\ call[p].ctx.kind # "int64"
        /\ call[p].op = "none"
        /\ ret[p].status = StatusInternalServerError
        /\ db.users # {} /\ db = pre[p]

\* C19: a handler that called its provider answers 500 when the provider
\* returned an error of any kind, and a success status only when it returned
\* nil: 204 from DeleteUserHandler, 200 from the others; nothing is written
\* while the provider runs.
C19_ProviderErrorsAre500 ==
    \A p \in Procs :
        (call[p].handler # "none" /\ call[p].op # "none")
        => /\ pc[p] # "responded" => ret[p].status = 0
           /\ pc[p] = "responded"
              => /\ ret[p].err # "nil"
                    <=> ret[p].status = StatusInternalServerError
                 /\ ret[p].err = "nil"
                    <=> ret[p].status \in {StatusOK, StatusNoContent}
                 /\ call[p].handler = "DeleteUserHandler"
                    => (ret[p].err = "nil" <=> ret[p].status = StatusNoContent)
                 /\ ret[p].status = StatusNoContent
                    => call[p].handler = "DeleteUserHandler"

\* GetUserHandler answered 500 for a missing user, DeleteUserHandler 204 for a
\* DeleteUser that returned nil
C19_Witness ==
    \E p \in Procs, q \in Procs :
        /\ pc[p] = "responded" /\ pc[q] = "responded"
        /\ call[p].handler = "GetUserHandler"
        /\ ret[p].err = "ErrUserNotFound"
        /\ ret[p].status = StatusInternalServerError
        /\ call[q].handler = "DeleteUserHandler"
        /\ call[q].op = "DeleteUser" /\ ret[q].err = "nil"
        /\ ret[q].status = StatusNoContent

====
